---- MODULE Spec2Model ----
(***************************************************************************)
(* A model of the followers simulation core: the World (construction,      *)
(* update, render, generate_svg), the accumulation Image and the Color     *)
(* compositing it rests on.                                                *)
(*                                                                         *)
(* An f32 is modelled as a binary floating-point number [m, e] of value    *)
(* m * 2^e whose mantissa m has MantissaBits bits (24 in the source):      *)
(* zero is [m |-> 0, e |-> 0], any other value has                         *)
(* 2^(MantissaBits-1) <= |m| < 2^MantissaBits.  Every operation rounds its *)
(* exact result to the nearest such number, ties to even, as IEEE 754      *)
(* does.  The exponent is unbounded: overflow and underflow are not        *)
(* modelled.  Bytes (u8) and indices (usize) are plain integers.  Rust's   *)
(* 0-based index i is element i + 1 of a sequence.                         *)
(***************************************************************************)
EXTENDS Integers, Sequences, FiniteSets, TLC

\* ------------------------------------------------------------------ bounds

\* bits of the f32 mantissa (24 in the source)
MantissaBits == 8
\* largest particle_count offered to World::new
MaxParticleCount == 10
\* update() calls explored per World
MaxTicks == 5
\* the Vec2 that HISTORY_MEMORY_CAP has room for (3600 * 1000 in the source)
HistoryCapSlots == 9
\* seeds 0 .. MaxSeed are offered as Seed hashes
MaxSeed == 3
\* acc_limit ranges over -MaxAccLimit .. MaxAccLimit
MaxAccLimit == 1
\* the Image that World::render draws into
ImageWidth == 22
ImageHeight == 2
\* update() calls explored between renders, and on each of two twin Worlds
MaxRenderTicks == 2
\* consecutive render() calls explored
MaxRenders == 2
\* images of 0 .. MaxDim pixels a side are resized
MaxDim == 3
\* operations explored on one resized image
MaxOps == 2
\* clicks on the random-seed button explored
MaxRandSeeds == 1
\* colour channels take the MaxLevel + 1 evenly spaced byte values
MaxLevel == 2
\* a seed hash is HashDigits hexadecimal digits wide (16 in the source: u64)
HashDigits == 2

\* ------------------------------------------------------------------- f32

Max(a, b) == IF a >= b THEN a ELSE b

Min(a, b) == IF a <= b THEN a ELSE b

Abs(a) == IF a < 0 THEN -a ELSE a

Sgn(a) == IF a < 0 THEN -1 ELSE 1

\* 2^e for 0 <= e <= 30
Pow2(e) == 2 ^ e

\* the number of bits of n, 0 <= n < 2^30
BitLength(n) == CHOOSE k \in 0 .. 30 : n < Pow2(k) /\ (k = 0 \/ n >= Pow2(k - 1))

RECURSIVE ISqrtBits(_, _, _)
\* floor(sqrt(n)) by bisection on [lo, hi)
ISqrtBits(n, lo, hi) ==
    IF hi - lo <= 1 THEN lo
    ELSE IF ((lo + hi) \div 2) * ((lo + hi) \div 2) <= n
         THEN ISqrtBits(n, (lo + hi) \div 2, hi)
         ELSE ISqrtBits(n, lo, (lo + hi) \div 2)

Float(m, e) == [m |-> m, e |-> e]

Zero == Float(0, 0)

\* a > 0 without its k > 0 low bits, rounded to nearest, ties to even
RoundOff(a, k) ==
    IF \/ 2 * (a % Pow2(k)) > Pow2(k)
       \/ 2 * (a % Pow2(k)) = Pow2(k) /\ (a \div Pow2(k)) % 2 = 1
    THEN a \div Pow2(k) + 1
    ELSE a \div Pow2(k)

\* sign * q * 2^e, renormalised when rounding carried q up to 2^MantissaBits
Carry(sign, q, e) ==
    IF q = Pow2(MantissaBits) THEN Float(sign * (q \div 2), e + 1)
    ELSE Float(sign * q, e)

\* m * 2^e with the mantissa moved k bits down (rounding) or -k bits up (exact)
Shift(m, e, k) ==
    IF k <= 0 THEN Float(m * Pow2(-k), e + k)
    ELSE Carry(Sgn(m), RoundOff(Abs(m), k), e + k)

\* the f32 nearest to m * 2^e (ties to even)
Round(m, e) ==
    IF m = 0 THEN Zero ELSE Shift(m, e, BitLength(Abs(m)) - MantissaBits)

\* `n as f32` of an integer n
FromInt(n) == Round(n, 0)

FNeg(a) == Float(-a.m, a.e)

\* f32 multiplication
FMul(a, b) == Round(a.m * b.m, a.e + b.e)

\* floor(n / d) followed by a sticky bit: set when the division is inexact
Sticky(n, d) == 2 * (n \div d) + (IF n % d = 0 THEN 0 ELSE 1)

\* f32 division (b # 0): the quotient with two guard bits and a sticky bit
FDiv(a, b) ==
    IF a.m = 0 THEN Zero
    ELSE Round(Sgn(a.m) * Sgn(b.m) * Sticky(Abs(a.m) * Pow2(MantissaBits + 2), Abs(b.m)),
               a.e - b.e - (MantissaBits + 2) - 1)

\* floor(sqrt(n)) followed by a sticky bit: set when n is not a square
SqrtSticky(n, r) == 2 * r + (IF r * r = n THEN 0 ELSE 1)

\* the f32 nearest to sqrt(n) * 2^e
SqrtScaled(n, e) == Round(SqrtSticky(n, ISqrtBits(n, 0, 46341)), e - 1)

\* the bits a mantissa is moved up before its root is taken: the exponent left is even
SqrtShift(a) ==
    IF (a.e - (MantissaBits + 2)) % 2 = 0 THEN MantissaBits + 2 ELSE MantissaBits + 3

\* f32::sqrt (a >= 0)
FSqrt(a) ==
    IF a.m = 0 THEN Zero
    ELSE SqrtScaled(a.m * Pow2(SqrtShift(a)), (a.e - SqrtShift(a)) \div 2)

\* hi + lo for hi.e >= lo.e; an operand below a quarter of the other's last place
\* is absorbed
Align(hi, lo) ==
    IF hi.e - lo.e > MantissaBits + 2 THEN hi
    ELSE Round(hi.m * Pow2(hi.e - lo.e) + lo.m, lo.e)

\* f32 addition
FAdd(a, b) ==
    IF a.m = 0 THEN b
    ELSE IF b.m = 0 THEN a
    ELSE IF a.e >= b.e THEN Align(a, b)
    ELSE Align(b, a)

FSub(a, b) == FAdd(a, FNeg(b))

\* a < b, a <= b on f32 (the sign of the rounded difference is exact)
FLt(a, b) == FSub(a, b).m < 0

FLe(a, b) == FSub(a, b).m <= 0

\* f32::max, f32::min
FMax(a, b) == IF FLt(a, b) THEN b ELSE a

FMin(a, b) == IF FLt(b, a) THEN b ELSE a

\* the f32 nearest to n / d for integers n, d > 0
FromRatio(n, d) == FDiv(FromInt(n), FromInt(d))

\* `x as usize`, `x as u8`: x >= 0 truncated toward zero
Trunc(a) ==
    IF a.e >= 0 THEN a.m * Pow2(a.e)
    ELSE IF -a.e > MantissaBits THEN 0
    ELSE a.m \div Pow2(-a.e)

\* f32::fract of x >= 0
Fract(a) ==
    IF a.e >= 0 THEN Zero
    ELSE IF -a.e > MantissaBits THEN a
    ELSE Round(a.m % Pow2(-a.e), a.e)

\* x >= 0 rounded to the nearest integer
Nearest(a) == Trunc(FAdd(a, FromRatio(1, 2)))

One == Float(Pow2(MantissaBits - 1), -(MantissaBits - 1))

\* ---------------------------------------------------------- Vec2 (math.rs)

Vec2(x, y) == [x |-> x, y |-> y]

VAdd(a, b) == Vec2(FAdd(a.x, b.x), FAdd(a.y, b.y))

VSub(a, b) == Vec2(FSub(a.x, b.x), FSub(a.y, b.y))

VMul(a, scale) == Vec2(FMul(a.x, scale), FMul(a.y, scale))

dot(a, b) == FAdd(FMul(a.x, b.x), FMul(a.y, b.y))

length_squared(a) == dot(a, a)

distance_squared(a, b) == length_squared(VSub(a, b))

\* clamp_length_max with its comparison reversed: long vectors are left as they are
clamp_length_min(v, max_length) ==
    IF FLt(length_squared(v), FMul(max_length, max_length))
    THEN VMul(v, FDiv(max_length, FSqrt(length_squared(v))))
    ELSE v

clamp_length_max(v, max_length) ==
    LET max_length_sq == FMul(max_length, max_length)
        length_sq == FAdd(FMul(v.x, v.x), FMul(v.y, v.y))
    IN  IF FLt(max_length_sq, length_sq)
        THEN VMul(v, FDiv(max_length, FSqrt(length_sq)))
        ELSE v

lerp(x, old_min, old_max, new_min, new_max) ==
    FAdd(FMul(FDiv(FSub(x, old_min), FSub(old_max, old_min)), FSub(new_max, new_min)),
         new_min)

\* the 2.0 * PI of the position ring
TwoPi == FromRatio(6283, 1000)

\* 1000 * sin of 0 .. 90 degrees
SinTable ==
    << 0, 17, 35, 52, 70, 87, 105, 122, 139, 156, 174, 191, 208,
       225, 242, 259, 276, 292, 309, 326, 342, 358, 375, 391, 407, 423,
       438, 454, 469, 485, 500, 515, 530, 545, 559, 574, 588, 602, 616,
       629, 643, 656, 669, 682, 695, 707, 719, 731, 743, 755, 766, 777,
       788, 799, 809, 819, 829, 839, 848, 857, 866, 875, 883, 891, 899,
       906, 914, 921, 927, 934, 940, 946, 951, 956, 961, 966, 970, 974,
       978, 982, 985, 988, 990, 993, 995, 996, 998, 999, 999, 1000, 1000 >>

\* 1000 * sin of d degrees, d in 0 .. 360
SinDeg(d) ==
    IF d <= 90 THEN SinTable[d + 1]
    ELSE IF d <= 180 THEN SinTable[180 - d + 1]
    ELSE IF d <= 270 THEN -SinTable[d - 180 + 1]
    ELSE -SinTable[360 - d + 1]

\* the angle t (radians, 0 <= t <= 2 pi) in whole degrees, 0 .. 360
Degrees(t) == Min(360, Nearest(FDiv(FMul(t, FromInt(360)), TwoPi)))

\* f32::sin and f32::cos, to the nearest degree of the argument
FSin(t) == FromRatio(SinDeg(Degrees(t)), 1000)

FCos(t) == FromRatio(SinDeg((Degrees(t) + 90) % 360), 1000)

\* f32::exp2 of an integer exponent: exactly 2^e
exp2(e) == Float(One.m, One.e + e)

\* ---------------------------------------------- random streams (world.rs)

\* ChaCha20Rng::seed_from_u64: the generator state a 64-bit seed selects.
\* The generator is a fixed function of its seed; a full-period congruential
\* generator over 64 states stands for it.
seed_from_u64(n) == (n * 17 + 5) % 64

\* one step of the generator
next_state(rng) == (rng * 5 + 3) % 64

\* the value a generator state yields, 0 .. 15
output(rng) == rng \div 4

\* the k-th value (k >= 1) of seeds = seed_from_u64(hash).sample_iter(Standard)
RECURSIVE nth_state(_, _)
nth_state(rng, k) == IF k = 0 THEN rng ELSE nth_state(next_state(rng), k - 1)

VARIABLE
    seed_rng     \* the draws made from the application's thread_rng (lib.rs)

\* the value thread_rng yields on its n-th draw (lib.rs: seed_rng.write().gen::<u64>())
thread_rng_value(n) == output(nth_state(seed_from_u64(0), n)) % (MaxSeed + 1)

\* with_rng! seeded from the application's thread_rng instead of the Seed's hash
with_thread_rng(hash, k) ==
    seed_from_u64(nth_state(seed_from_u64(thread_rng_value(seed_rng)), k))

\* with_rng!: the stream of the k-th derived array
with_rng(hash, k) == seed_from_u64(nth_state(seed_from_u64(hash), k))

\* rng.gen_range(0..n) on state rng: the value drawn
gen_index(rng, n) == output(next_state(rng)) % n

\* rng.gen_range(lo/den ..= hi/den) over f32, lo <= hi: the value drawn,
\* (lo + (hi - lo) * u) / den with u one of 0/15, 1/15, ..., 15/15
gen_float(rng, lo, hi, den) ==
    FromRatio(15 * lo + output(next_state(rng)) * (hi - lo), 15 * den)

\* ------------------------------------------------------ Color (color.rs)

Color(r, g, b, a) == [r |-> r, g |-> g, b |-> b, a |-> a]

transparent == Color(0, 0, 0, 0)

\* (x * BYTE_MAX_FLOAT) as u8: truncating, saturating
ToByte(x) == Max(0, Min(255, Trunc(FMax(Zero, FMul(x, FromInt(255))))))

\* 1000 * srgb_from_linear(p / 100), p in 0 .. 100
SrgbTable ==
    << 0, 100, 152, 190, 221, 248, 272, 293, 313, 332, 349, 366, 381,
       396, 410, 424, 437, 449, 461, 473, 485, 496, 506, 517, 527, 537,
       547, 556, 566, 575, 584, 593, 601, 610, 618, 626, 634, 642, 650,
       658, 665, 673, 680, 687, 694, 701, 708, 715, 722, 729, 735, 742,
       748, 755, 761, 767, 774, 780, 786, 792, 798, 804, 809, 815, 821,
       827, 832, 838, 843, 849, 854, 860, 865, 870, 876, 881, 886, 891,
       896, 901, 906, 911, 916, 921, 926, 931, 936, 941, 945, 950, 955,
       959, 964, 969, 973, 978, 982, 987, 991, 996, 1000 >>

\* srgb_from_linear, to the nearest percent of the argument
srgb_from_linear(x) ==
    FromRatio(SrgbTable[Max(0, Min(100, Nearest(FMul(FMax(Zero, x), FromInt(100))))) + 1],
              1000)

\* f32 clamp(0.0, 100.0)
clamp_percent(x) == FMax(Zero, FMin(FromInt(100), x))

\* h % 2.0 for 0 <= h < 6
rem2(h) ==
    IF FLt(h, FromInt(2)) THEN h
    ELSE IF FLt(h, FromInt(4)) THEN FSub(h, FromInt(2))
    ELSE FSub(h, FromInt(4))

FAbs(a) == Float(Abs(a.m), a.e)

\* h.rem_euclid(360.0) for -360 <= h < 720
rem_euclid_360(h) ==
    IF h.m < 0 THEN FAdd(h, FromInt(360))
    ELSE IF FLe(FromInt(360), h) THEN FSub(h, FromInt(360))
    ELSE h

\* the (r, g, b) of hsva before m is added: chroma c and x by the sextant of h
hsva_rgb(h, c, x) ==
    IF FLt(h, One) THEN << c, x, Zero >>
    ELSE IF FLt(h, FromInt(2)) THEN << x, c, Zero >>
    ELSE IF FLt(h, FromInt(3)) THEN << Zero, c, x >>
    ELSE IF FLt(h, FromInt(4)) THEN << Zero, x, c >>
    ELSE IF FLt(h, FromInt(5)) THEN << x, Zero, c >>
    ELSE << c, Zero, x >>

\* the bytes of hsva: each channel plus m through srgb_from_linear
hsva_bytes(rgb, m, a) ==
    Color(ToByte(srgb_from_linear(FAdd(rgb[1], m))),
          ToByte(srgb_from_linear(FAdd(rgb[2], m))),
          ToByte(srgb_from_linear(FAdd(rgb[3], m))),
          ToByte(a))

\* hsva from h in sextants, chroma c, and v, a in [0, 1]
hsva_chroma(h, c, v, a) ==
    hsva_bytes(hsva_rgb(h, c, FMul(c, FSub(One, FAbs(FSub(rem2(h), One))))), FSub(v, c), a)

\* hsva from h in sextants and s, v, a in [0, 1]
hsva_unit(h, s, v, a) == hsva_chroma(h, FMul(v, s), v, a)

\* Color::hsva; h0 in degrees, s0, v0, a0 in percent
hsva(h0, s0, v0, a0) ==
    hsva_unit(FDiv(rem_euclid_360(h0), FromInt(60)),
              FDiv(clamp_percent(s0), FromInt(100)),
              FDiv(clamp_percent(v0), FromInt(100)),
              FDiv(clamp_percent(a0), FromInt(100)))

\* one channel of a blend that keeps the bottom channel where Ac is zero
BlendChannelKeeping(top_c, top_a, bot_c, bot_a) ==
    IF top_a * 255 + bot_a * (255 - top_a) = 0 THEN bot_c
    ELSE Min(255, (top_c * top_a * 255 + bot_c * bot_a * (255 - top_a))
                      \div (top_a * 255 + bot_a * (255 - top_a)))

\* one channel of blend: (Ctop*Atop + Cbot*Abot*(1 - Atop)) / Ac as a byte.
\* The quotient is taken exactly; a zero Ac gives NaN, which `as u8` makes 0.
BlendChannel(top_c, top_a, bot_c, bot_a) ==
    LET den == top_a * 255 + bot_a * (255 - top_a)
        num == top_c * top_a * 255 + bot_c * bot_a * (255 - top_a)
    IN  IF den = 0 THEN 0 ELSE Min(255, num \div den)

\* blend that lets other replace self
blend_replace(self, other) == other

\* blend with the two colours swapped: self composited over other
blend_under(self, other) ==
    Color(BlendChannel(self.r, self.a, other.r, other.a),
          BlendChannel(self.g, self.a, other.g, other.a),
          BlendChannel(self.b, self.a, other.b, other.a),
          (self.a * 255 + other.a * (255 - self.a)) \div 255)

\* self.blend(other): other composited over self
blend(self, other) ==
    Color(BlendChannel(other.r, other.a, self.r, self.a),
          BlendChannel(other.g, other.a, self.g, self.a),
          BlendChannel(other.b, other.a, self.b, self.a),
          (other.a * 255 + self.a * (255 - other.a)) \div 255)

\* color.fade(f): the colour with its alpha scaled by the f32 f in [0, 1]
fade(color, f) ==
    [color EXCEPT !.a = Max(0, Min(255, Trunc(FMul(FromInt(color.a), FMax(Zero, f)))))]

\* ------------------------------------------------------ World (world.rs)

\* size_of::<Vec2>(): two f32
SizeOfVec2 == 8

\* 3600 * 1000 * size_of::<Vec2>() in the source
HISTORY_MEMORY_CAP == HistoryCapSlots * SizeOfVec2

\* Params::check with the bound one too high
check_above_three(p) == p.particle_count > 3

\* Params::check
check(p) == p.particle_count > 2

\* Params::idxs
idxs(p) == 0 .. p.particle_count - 1

\* Seed::as_hash
as_hash(seed) == seed.n

\* Vec2 { x: r * t.cos(), y: r * t.sin() }
polar(r, t) == Vec2(FMul(r, FCos(t)), FMul(r, FSin(t)))

RECURSIVE new_positions(_, _, _)
\* positions of particles idx, idx + 1, ... drawn from the stream rng
new_positions(p, idx, rng) ==
    IF idx >= p.particle_count THEN << >>
    ELSE << polar(gen_float(rng, 9, 10, 1),
                  lerp(FromInt(idx), Zero, FromInt(p.particle_count - 1), Zero, TwoPi)) >>
             \o new_positions(p, idx + 1, next_state(rng))

new_velocities(p) == [i \in 1 .. p.particle_count |-> Vec2(Zero, Zero)]

RECURSIVE redraw_while(_, _, _)
\* the state of rng after redrawing while the drawn index is in avoid
redraw_while(rng, n, avoid) ==
    IF gen_index(rng, n) \in avoid THEN redraw_while(next_state(rng), n, avoid)
    ELSE rng

\* the partner pair of particle idx with k redrawn only while k == i
draw_partners_unchecked(p, idx, rng) ==
    [pair |-> << gen_index(redraw_while(rng, p.particle_count, {idx}), p.particle_count),
                 gen_index(redraw_while(next_state(redraw_while(rng, p.particle_count, {idx})),
                                        p.particle_count, {idx}),
                           p.particle_count) >>,
     rng |-> next_state(redraw_while(next_state(redraw_while(rng, p.particle_count, {idx})),
                                     p.particle_count, {idx}))]

\* the partner pair of particle idx drawn from rng: [pair, rng]
draw_partners(p, idx, rng) ==
    LET n == p.particle_count
        i == idx
        rj == redraw_while(rng, n, {i})
        j == gen_index(rj, n)
        rk == redraw_while(next_state(rj), n, {i, j})
        k == gen_index(rk, n)
    IN  [pair |-> << j, k >>, rng |-> next_state(rk)]

RECURSIVE new_partners(_, _, _)
new_partners(p, idx, rng) ==
    IF idx >= p.particle_count THEN << >>
    ELSE LET d == draw_partners(p, idx, rng)
         IN  << d.pair >> \o new_partners(p, idx + 1, d.rng)

RECURSIVE new_colors(_, _, _)
new_colors(p, idx, rng) ==
    IF idx >= p.particle_count THEN << >>
    ELSE LET h == gen_float(rng,
                            2 * p.particle_color_hue_mid - p.particle_color_hue_spread,
                            2 * p.particle_color_hue_mid + p.particle_color_hue_spread, 2)
             rng1 == next_state(rng)
             s == gen_float(rng1,
                            2 * p.particle_color_saturation_mid
                                - p.particle_color_saturation_spread,
                            2 * p.particle_color_saturation_mid
                                + p.particle_color_saturation_spread, 2)
         IN  << hsva(h, s, FromInt(p.particle_color_value),
                     FromInt(p.particle_color_alpha)) >>
                 \o new_colors(p, idx + 1, next_state(rng1))

\* a World whose position stream is seeded from its colour parameters too
new_world_tinted(p) ==
    LET positions == new_positions(p, 0, with_rng(as_hash(p.seed) + p.particle_color_alpha, 1))
    IN  [params |-> p,
         positions |-> positions,
         velocities |-> new_velocities(p),
         partners |-> new_partners(p, 0, with_rng(as_hash(p.seed), 3)),
         colors |-> new_colors(p, 0, with_rng(as_hash(p.seed), 4)),
         history |-> << positions >>]

\* the World that World::new(params) returns when params.check() passes
new_world(p) ==
    LET positions == new_positions(p, 0, with_rng(as_hash(p.seed), 1))
    IN  [params |-> p,
         positions |-> positions,
         velocities |-> new_velocities(p),
         partners |-> new_partners(p, 0, with_rng(as_hash(p.seed), 3)),
         colors |-> new_colors(p, 0, with_rng(as_hash(p.seed), 4)),
         history |-> << positions >>]

\* t without its lower bound: the projection of pos on the line of the partners
steer_t_unclamped(pos, p1, p2, p_dist_sq) ==
    IF p_dist_sq = Zero THEN One
    ELSE FDiv(dot(VSub(pos, p1), VSub(p2, p1)), p_dist_sq)

\* t of a particle at pos whose partners are at p1 and p2, p_dist_sq apart
steer_t(pos, p1, p2, p_dist_sq) ==
    IF p_dist_sq = Zero THEN One
    ELSE FMax(FDiv(dot(VSub(pos, p1), VSub(p2, p1)), p_dist_sq), One)

\* p2 * t + p1 * (1.0 - t)
target_pos(p1, p2, t) == VAdd(VMul(p2, t), VMul(p1, FSub(One, t)))

\* acc of a particle at pos whose partners are at p1 and p2 (after its clamp)
steer(pos, p1, p2, acc_limit) ==
    clamp_length_max(
        VSub(target_pos(p1, p2, steer_t(pos, p1, p2, distance_squared(p2, p1))), pos),
        acc_limit)

\* the acceleration of particle idx in one tick, from the positions pre
acceleration(pre, partners, idx, acc_limit) ==
    steer(pre[idx + 1], pre[partners[idx + 1][1] + 1], pre[partners[idx + 1][2] + 1],
          acc_limit)

\* the velocity of particle idx after one tick
new_velocity(pre, vel, partners, idx, acc_limit) ==
    clamp_length_max(VAdd(vel, acceleration(pre, partners, idx, acc_limit)), One)

RECURSIVE update_velocities_in_place(_, _, _)
\* a first loop that moves each particle as soon as its velocity is known
update_velocities_in_place(w, idx, velocities) ==
    IF idx >= w.params.particle_count THEN velocities
    ELSE update_velocities_in_place(
             [w EXCEPT !.positions[idx + 1] =
                 VAdd(@, new_velocity(w.positions, velocities[idx + 1], w.partners, idx,
                                      exp2(w.params.acc_limit)))],
             idx + 1,
             [velocities EXCEPT ![idx + 1] =
                 new_velocity(w.positions, velocities[idx + 1], w.partners, idx,
                              exp2(w.params.acc_limit))])

RECURSIVE update_velocities(_, _, _)
\* the first loop of update(), from particle idx on: velocities only
update_velocities(w, idx, velocities) ==
    IF idx >= w.params.particle_count THEN velocities
    ELSE update_velocities(w, idx + 1,
             [velocities EXCEPT ![idx + 1] =
                 new_velocity(w.positions, velocities[idx + 1], w.partners, idx,
                              exp2(w.params.acc_limit))])

RECURSIVE update_positions(_, _, _)
\* the second loop of update(), from particle idx on
update_positions(w, idx, positions) ==
    IF idx >= w.params.particle_count THEN positions
    ELSE update_positions(w, idx + 1,
             [positions EXCEPT ![idx + 1] = VAdd(positions[idx + 1], w.velocities[idx + 1])])

\* Vec::swap_remove(index): the element is replaced by the last one
swap_remove(v, index) ==
    IF index + 1 = Len(v) THEN SubSeq(v, 1, Len(v) - 1)
    ELSE SubSeq([v EXCEPT ![index + 1] = v[Len(v)]], 1, Len(v) - 1)

\* swap_remove panics when index is out of bounds
swap_remove_panics(v, index) == index >= Len(v)

\* slice::rotate_left(mid)
rotate_left(v, mid) == SubSeq(v, mid + 1, Len(v)) \o SubSeq(v, 1, mid)

\* rotate_left panics when mid is greater than the length
rotate_left_panics(v, mid) == mid > Len(v)

\* history must drop its oldest snapshot before the next push
must_evict(w) ==
    (Len(w.history) + 1) * w.params.particle_count * SizeOfVec2 > HISTORY_MEMORY_CAP

\* a first loop that also swaps the two partners of every particle
steer_all_swapping(w) ==
    [w EXCEPT !.velocities = update_velocities(w, 0, w.velocities),
              !.partners = [i \in 1 .. Len(w.partners) |->
                               << w.partners[i][2], w.partners[i][1] >>]]

\* the first loop of update() on the whole World
steer_all(w) == [w EXCEPT !.velocities = update_velocities(w, 0, w.velocities)]

\* the second loop of update() on the whole World
move_all(w) == [w EXCEPT !.positions = update_positions(w, 0, w.positions)]

\* the history a non-panicking eviction leaves: h is history after swap_remove(0)
evicted(h, positions) == Append(rotate_left(h, 1), positions)

\* the end of update(): the eviction, then the push of the new positions;
\* [world, panic], on a panic world is the state left behind
record(w) ==
    IF must_evict(w)
    THEN IF swap_remove_panics(w.history, 0)
         THEN [world |-> w, panic |-> TRUE]
         ELSE IF rotate_left_panics(swap_remove(w.history, 0), 1)
              THEN [world |-> [w EXCEPT !.history = swap_remove(w.history, 0)],
                    panic |-> TRUE]
              ELSE [world |-> [w EXCEPT !.history =
                                   evicted(swap_remove(w.history, 0), w.positions)],
                    panic |-> FALSE]
    ELSE [world |-> [w EXCEPT !.history = Append(w.history, w.positions)],
          panic |-> FALSE]

\* World::update: [world, panic]
update(w) == record(move_all(steer_all(w)))

\* ------------------------------------------------------ Image (image.rs)

\* Image::new
new_image(width, height, background) ==
    [width |-> width, height |-> height, background |-> background,
     pixels |-> [i \in 1 .. width * height |-> background]]

\* indexing self.pixels[x + y * self.width] panics out of range
pixel_out_of_range(image, x, y) == x + y * image.width >= Len(image.pixels)

\* Image::put_pixel (the index is in range)
put_pixel(image, x, y, color) ==
    [image EXCEPT !.pixels[x + y * image.width + 1] = color]

\* Image::blend_pixel (the index is in range)
blend_pixel(image, x, y, color) ==
    [image EXCEPT !.pixels[x + y * image.width + 1] =
        blend(image.pixels[x + y * image.width + 1], color)]

\* calc! after `let x = x - 0.5`: the two optional (pixel, weight) pairs of one
\* axis of w pixels; None is << >>, Some(p) is << p >>
calc_pairs(x, w) ==
    IF FLe(x, FNeg(One)) \/ FLe(FromInt(w), x) THEN << << >>, << >> >>
    ELSE IF x.m < 0 THEN << << >>, << [px |-> 0, f |-> FAdd(One, x)] >> >>
    ELSE IF FLe(FSub(FromInt(w), One), x)
         THEN << << [px |-> w - 1, f |-> FSub(One, Fract(x))] >>, << >> >>
    ELSE << << [px |-> Trunc(x), f |-> FSub(One, Fract(x))] >>,
            << [px |-> Trunc(x) + 1, f |-> Fract(x)] >> >>

\* calc! of draw_particle
calc(x0, w) == calc_pairs(FSub(x0, FromRatio(1, 2)), w)

\* write! of draw_particle on the result r = [image, panic] so far
write(r, color, ox, oy) ==
    IF r.panic \/ ox = << >> \/ oy = << >> THEN r
    ELSE LET c == fade(color, FMul(ox[1].f, oy[1].f))
         IN  IF pixel_out_of_range(r.image, ox[1].px, oy[1].px)
             THEN [r EXCEPT !.panic = TRUE]
             ELSE [r EXCEPT !.image = blend_pixel(r.image, ox[1].px, oy[1].px, c)]

\* the four write! of draw_particle, in the order of the source
write_all(image, color, cx, cy) ==
    write(write(write(write([image |-> image, panic |-> FALSE],
                            color, cx[1], cy[1]),
                      color, cx[1], cy[2]),
                color, cx[2], cy[1]),
          color, cx[2], cy[2])

\* Image::draw_particle: [image, panic]
draw_particle(image, x, y, color) ==
    write_all(image, color, calc(x, image.width), calc(y, image.height))

\* the pixels (x, y) that the pairs cx, cy of calc! select
covered(cx, cy) ==
    { << cx[q[1]][1].px, cy[q[2]][1].px >> :
        q \in { q \in (1 .. 2) \X (1 .. 2) : cx[q[1]] # << >> /\ cy[q[2]] # << >> } }

\* the pixels (x, y) that draw_particle(x0, y0, _) blends into
footprint(image, x0, y0) == covered(calc(x0, image.width), calc(y0, image.height))

\* p2[i2 .. i2 + n].copy_from_slice(&p1[i1 .. i1 + n]): panics when either
\* range leaves its buffer, or when an index underflowed (i1 < 0 or i2 < 0)
copy_panics(p2, i2, p1, i1, n) ==
    i1 < 0 \/ i2 < 0 \/ i1 + n > Len(p1) \/ i2 + n > Len(p2)

copy_from_slice(p2, i2, p1, i1, n) ==
    [i \in 1 .. Len(p2) |-> IF i > i2 /\ i <= i2 + n THEN p1[i1 + (i - i2)] ELSE p2[i]]

RECURSIVE copy_rows(_, _, _, _, _, _, _, _)
\* the row loop of a resize arm: rows y, y + 1, ..., rows - 1 are copied, row y
\* from offset a1 + s1 * y of p1 to offset a2 + s2 * y of p2, n pixels each;
\* [pixels, panic]
copy_rows(p2, p1, y, rows, n, a1, s1, a2s2) ==
    IF y >= rows THEN [pixels |-> p2, panic |-> FALSE]
    ELSE LET i1 == a1 + s1 * y
             i2 == a2s2[1] + a2s2[2] * y
         IN  IF copy_panics(p2, i2, p1, i1, n) THEN [pixels |-> p2, panic |-> TRUE]
             ELSE copy_rows(copy_from_slice(p2, i2, p1, i1, n), p1, y + 1, rows, n,
                            a1, s1, a2s2)

\* Image::resize: [image, panic]; a panic leaves the image as it was
resize(image, width, height) ==
    LET bg == image.background
        w1 == image.width
        h1 == image.height
        w2 == width
        h2 == height
        p1 == image.pixels
        fresh == [i \in 1 .. w2 * h2 |-> bg]
        done(r) == IF r.panic THEN [image |-> image, panic |-> TRUE]
                   ELSE [image |-> [image EXCEPT !.pixels = r.pixels,
                                                 !.width = width, !.height = height],
                         panic |-> FALSE]
    IN  IF w2 < w1 /\ h2 <= h1 THEN
            \* (Less, Less | Equal): y1 = y2 - my, i1 = mx + w1 * y1, i2 = w2 * y2
            LET mx == (w1 - w2) \div 2
                my == (h1 - h2) \div 2
            IN  done(copy_rows(fresh, p1, 0, h2, w2, mx - w1 * my, w1, << 0, w2 >>))
        ELSE IF w2 < w1 /\ h2 > h1 THEN
            \* (Less, Greater): y2 = y1 + my, i1 = mx + w1 * y1, i2 = w2 * y2
            LET mx == (w1 - w2) \div 2
                my == (h2 - h1) \div 2
            IN  done(copy_rows(fresh, p1, 0, h1, w2, mx, w1, << w2 * my, w2 >>))
        ELSE IF w2 = w1 /\ h2 < h1 THEN
            \* (Equal, Less): p1[w1 * my .. w1 * (my + h2)].to_vec()
            LET my == (h1 - h2) \div 2
            IN  done([pixels |-> SubSeq(p1, w1 * my + 1, w1 * (my + h2)), panic |-> FALSE])
        ELSE IF w2 = w1 /\ h2 = h1 THEN
            [image |-> image, panic |-> FALSE]
        ELSE IF w2 = w1 /\ h2 > h1 THEN
            \* (Equal, Greater): p2[w2 * my .. w2 * (my + h1)].copy_from_slice(p1)
            LET my == (h2 - h1) \div 2
            IN  done([pixels |-> copy_from_slice(fresh, w2 * my, p1, 0, w2 * h1),
                      panic |-> FALSE])
        ELSE IF w2 > w1 /\ h2 <= h1 THEN
            \* (Greater, Less | Equal): y1 = y2 + my, i1 = w1 * y1, i2 = mx + w2 * y2
            LET mx == (w2 - w1) \div 2
                my == (h1 - h2) \div 2
            IN  done(copy_rows(fresh, p1, 0, h2, w1, w1 * my, w1, << mx, w2 >>))
        ELSE
            \* (Greater, Greater): y2 = y1 + my, i1 = w1 * y1, i2 = mx + w2 * y2
            LET mx == (w2 - w1) \div 2
                my == (h2 - h1) \div 2
            IN  done(copy_rows(fresh, p1, 0, h1, w1, 0, w1, << mx + w2 * my, w2 >>))

\* Image::clear
clear(image) == [image EXCEPT !.pixels = [i \in 1 .. Len(image.pixels) |-> image.background]]

RECURSIVE render_from(_, _, _)
\* the loop of World::render from particle idx on: [image, panic]
render_from(w, idx, r) ==
    IF idx >= w.params.particle_count \/ r.panic THEN r
    ELSE LET hw == FDiv(FromInt(r.image.width), FromInt(2))
             hh == FDiv(FromInt(r.image.height), FromInt(2))
             pos == w.positions[idx + 1]
         IN  render_from(w, idx + 1,
                 draw_particle(r.image, FAdd(pos.x, hw), FAdd(pos.y, hh),
                               w.colors[idx + 1]))

\* World::render
render(w, image) == render_from(w, 0, [image |-> image, panic |-> FALSE])

RECURSIVE FlattenSeq(_)
\* history.iter().flatten()
FlattenSeq(ss) == IF ss = << >> THEN << >> ELSE Head(ss) \o FlattenSeq(Tail(ss))

RECURSIVE fold_bounds(_, _)
\* the fold of generate_svg: None is << >>, Some(b) is << b >>
fold_bounds(vs, max) ==
    IF vs = << >> THEN max
    ELSE LET v == Head(vs)
         IN  fold_bounds(Tail(vs),
                 IF max = << >> THEN << << v.x, v.y, v.x, v.y >> >>
                 ELSE << << FMin(v.x, max[1][1]), FMin(v.y, max[1][2]),
                            FMax(v.x, max[1][3]), FMax(v.y, max[1][4]) >> >>)

\* step[idx] of generate_svg panics when a snapshot is too short
svg_panics(w) ==
    \E s \in 1 .. Len(w.history) : Len(w.history[s]) < w.params.particle_count

\* a d attribute in which every step, the first too, is an L
path_d_lines(w, idx) ==
    [s \in 1 .. Len(w.history) |->
        << "L", w.history[s][idx + 1].x, w.history[s][idx + 1].y >>]

\* the d attribute of particle idx: M for the first step, L for the others
path_d(w, idx) ==
    [s \in 1 .. Len(w.history) |->
        << IF s = 1 THEN "M" ELSE "L", w.history[s][idx + 1].x, w.history[s][idx + 1].y >>]

\* the svg document of generate_svg for the bounds box = (min_x, min_y, max_x, max_y)
svg_document(w, background_color, box) ==
    [viewBox |-> << box[1], box[2], FSub(box[3], box[1]), FSub(box[4], box[2]) >>,
     background |-> background_color,
     paths |-> [i \in 1 .. w.params.particle_count |->
                   [stroke |-> w.colors[i], d |-> path_d(w, i - 1)]]]

\* unwrap_or_default() of the fold
unwrap_or_default(b) == IF b = << >> THEN << Zero, Zero, Zero, Zero >> ELSE b[1]

\* World::generate_svg (no snapshot is too short)
generate_svg(w, background_color) ==
    svg_document(w, background_color,
                 unwrap_or_default(fold_bounds(FlattenSeq(w.history), << >>)))

\* --------------------------------------------------------- the programs

VARIABLES
    params,      \* the Params handed to World::new
    world,       \* the World (its arrays are empty before construction)
    result,      \* of World::new: "none" (not called), "ok", "err"
    panicked,    \* an operation panicked
    ticks,       \* update() calls made on world
    svg,         \* << >> or << the last generate_svg output >>
    image,       \* the Image
    renders,     \* render() calls made since the last update()
    log,         \* the operations made on image since the last update(), each with
                 \* the image before it
    twin,        \* a second World and its bookkeeping: [world, result, panicked, ticks]
    input,       \* what the next seed event carries: << >> (no event), << "text", t >>
                 \* (the text of the seed field) or << "hash", h >> (the u64 drawn for
                 \* the random-seed button)
    renderer,    \* world_renderer of App: << >> (None) or << [paused, frame_idx] >>
    frame_limit, \* the frame_limit signal of App
    window,      \* the browser window: [frames, timeouts, handles, href], the
                 \* animation-frame callbacks requested and not yet run, the
                 \* timeouts set and not yet run or cleared (their handles and the
                 \* URLs they push), the timeout handles issued so far, and the
                 \* config of the current URL (<< >> when it has none)
    history_push_state_timeout_handle,
                 \* the signal of that name of App: << >> (None) or << handle >>
    effects      \* the effects of App that wait to run because a signal they
                 \* read has changed

appVars == << renderer, frame_limit, window, history_push_state_timeout_handle, effects >>

vars ==
    << params, world, result, panicked, ticks, svg, image, renders, log, twin, seed_rng,
       input, appVars >>

worldVars == << params, world, result, ticks, svg >>

imageVars == << image, renders, log >>

\* BACKGROUND_COLOR of lib.rs: Color::hex(0x000000ff)
BACKGROUND_COLOR == Color(0, 0, 0, 255)

\* the display parameters App starts with (lib.rs)
DefaultDisplay ==
    [hue_mid |-> 120, hue_spread |-> 240, saturation_mid |-> 70,
     saturation_spread |-> 20, value |-> 100, alpha |-> 6]

\* a palette of one fully opaque colour
OpaqueDisplay ==
    [hue_mid |-> 0, hue_spread |-> 0, saturation_mid |-> 100,
     saturation_spread |-> 0, value |-> 100, alpha |-> 100]

\* ------------------------------------------------- Seed (world.rs)

\* the characters of seed texts; a text is a sequence of them
Alphabet ==
    << "0", "1", "2", "3", "4", "5", "6", "7", "8", "9",
       "a", "b", "c", "d", "e", "f", "A", "B", "C", "D", "E", "F",
       "x", "X", "+", "g" >>

\* the place of the character c in Alphabet
CharCode(c) == CHOOSE i \in 1 .. Len(Alphabet) : Alphabet[i] = c

\* char::to_digit(16): -1 stands for None
to_digit(c) ==
    IF CharCode(c) <= 16 THEN CharCode(c) - 1
    ELSE IF CharCode(c) <= 22 THEN CharCode(c) - 7
    ELSE -1

\* the largest hash: u64::MAX
MaxHash == (16 ^ HashDigits) - 1

RECURSIVE parse_digits(_, _)
\* the digit loop of from_str_radix on top of the value acc: Err is << >>,
\* Ok(n) is << n >>
parse_digits(digits, acc) ==
    IF digits = << >> THEN << acc >>
    ELSE IF to_digit(Head(digits)) < 0 THEN << >>
    ELSE IF acc * 16 + to_digit(Head(digits)) > MaxHash THEN << >>
    ELSE parse_digits(Tail(digits), acc * 16 + to_digit(Head(digits)))

\* u64::from_str_radix(src, 16).ok(): an empty text and a lone sign are
\* errors, one leading + is skipped
from_str_radix(src) ==
    IF src = << >> THEN << >>
    ELSE IF Head(src) = "+"
         THEN IF Tail(src) = << >> THEN << >> ELSE parse_digits(Tail(src), 0)
    ELSE parse_digits(src, 0)

\* seed.strip_prefix("0x"): None is << >>, Some(rest) is << rest >>
strip_prefix(seed) ==
    IF Len(seed) >= 2 /\ seed[1] = "0" /\ seed[2] = "x"
    THEN << SubSeq(seed, 3, Len(seed)) >>
    ELSE << >>

RECURSIVE digest(_, _)
\* md5::compute(seed), its first eight bytes as a little-endian u64: a fixed
\* function of the text that stands for MD5
digest(seed, acc) ==
    IF seed = << >> THEN acc
    ELSE digest(Tail(seed), (acc * 31 + CharCode(Head(seed)) + 7) % (MaxHash + 1))

\* hash_seed
hash_seed(seed) ==
    IF /\ strip_prefix(seed) # << >>
       /\ Len(strip_prefix(seed)[1]) = HashDigits
       /\ from_str_radix(strip_prefix(seed)[1]) # << >>
    THEN from_str_radix(strip_prefix(seed)[1])[1]
    ELSE digest(seed, 0)

RECURSIVE lower_hex(_)
\* {hash:x}: the digits of hash in base 16, lower case, no leading zero
lower_hex(hash) ==
    IF hash < 16 THEN << Alphabet[hash + 1] >>
    ELSE Append(lower_hex(hash \div 16), Alphabet[(hash % 16) + 1])

\* the width and zero flag of {hash:016x}: zeros on the left up to width
pad_zero(digits, width) ==
    [i \in 1 .. Max(0, width - Len(digits)) |-> "0"] \o digits

\* a SeedHash written with "0x{hash:x}", the width left out
fmt_unpadded(hash) == << "0", "x" >> \o lower_hex(hash)

\* Display for SeedHash: write!(f, "0x{hash:016x}")
fmt(hash) == << "0", "x" >> \o pad_zero(lower_hex(hash), HashDigits)

\* unhash_seed
unhash_seed(hash) == fmt(hash)

\* Seed::from_str
from_str(seed) == [s |-> seed, n |-> hash_seed(seed)]

\* Seed::from_hash
from_hash(hash) == [s |-> unhash_seed(hash), n |-> hash]

\* Seed::as_str
as_str(seed) == seed.s

MakeParams(count, hash, acc, d) ==
    [seed |-> from_hash(hash),
     particle_count |-> count,
     particle_color_hue_mid |-> d.hue_mid,
     particle_color_hue_spread |-> d.hue_spread,
     particle_color_saturation_mid |-> d.saturation_mid,
     particle_color_saturation_spread |-> d.saturation_spread,
     particle_color_value |-> d.value,
     particle_color_alpha |-> d.alpha,
     acc_limit |-> acc]

\* the Params of counts particles, any seed, acc_limit in accs, colours of displays
ParamsSet(counts, accs, displays) ==
    { MakeParams(count, hash, acc, d) :
        count \in counts, hash \in 0 .. MaxSeed, acc \in accs, d \in displays }

\* the World before World::new has run
NoWorld(p) ==
    [params |-> p, positions |-> << >>, velocities |-> << >>, partners |-> << >>,
     colors |-> << >>, history |-> << >>]

NoImage == new_image(0, 0, BACKGROUND_COLOR)

NoTwin(p) == [world |-> NoWorld(p), result |-> "none", panicked |-> FALSE, ticks |-> 0]

\* a window with nothing requested and no config in its URL
NoWindow == [frames |-> 0, timeouts |-> {}, handles |-> 0, href |-> << >>]

\* the World and the Image are used without the application around them
NoApp ==
    /\ renderer = << >>
    /\ frame_limit = 0
    /\ window = NoWindow
    /\ history_push_state_timeout_handle = << >>
    /\ effects = {}

\* ---- the World's life: new, update, generate_svg

Init ==
    /\ params \in ParamsSet(0 .. MaxParticleCount, -MaxAccLimit .. MaxAccLimit,
                             { DefaultDisplay })
    /\ world = NoWorld(params)
    /\ result = "none"
    /\ panicked = FALSE
    /\ ticks = 0
    /\ svg = << >>
    /\ image = NoImage
    /\ renders = 0
    /\ log = << >>
    /\ twin = NoTwin(params)
    /\ seed_rng = 0
    /\ input = << >>
    /\ NoApp

\* World::new(&params)
New ==
    /\ result = "none"
    /\ IF check(params)
       THEN world' = new_world(params) /\ result' = "ok"
       ELSE world' = world /\ result' = "err"
    /\ UNCHANGED << params, panicked, ticks, svg, imageVars, twin, seed_rng, input, appVars >>

\* world.update()
Update ==
    /\ result = "ok"
    /\ ~panicked
    /\ ticks < MaxTicks
    /\ world' = update(world).world
    /\ panicked' = update(world).panic
    /\ ticks' = ticks + 1
    /\ renders' = 0
    /\ log' = << >>
    /\ UNCHANGED << params, result, svg, image, twin, seed_rng, input, appVars >>

\* world.generate_svg(BACKGROUND_COLOR)
GenerateSvg ==
    /\ result = "ok"
    /\ ~panicked
    /\ IF svg_panics(world)
       THEN panicked' = TRUE /\ svg' = svg
       ELSE panicked' = FALSE /\ svg' = << generate_svg(world, BACKGROUND_COLOR) >>
    /\ UNCHANGED << params, world, result, ticks, imageVars, twin, seed_rng, input, appVars >>

Next == New \/ Update \/ GenerateSvg

Spec == Init /\ [][Next]_vars

\* ---- rendering: new, update, render into one Image

InitRender ==
    /\ params \in ParamsSet(3 .. 4, { -1 }, { DefaultDisplay, OpaqueDisplay })
    /\ world = NoWorld(params)
    /\ result = "none"
    /\ panicked = FALSE
    /\ ticks = 0
    /\ svg = << >>
    /\ image = new_image(ImageWidth, ImageHeight, BACKGROUND_COLOR)
    /\ renders = 0
    /\ log = << >>
    /\ twin = NoTwin(params)
    /\ seed_rng = 0
    /\ input = << >>
    /\ NoApp

\* world.update() between renders
UpdateRendered ==
    /\ ticks < MaxRenderTicks
    /\ Update

\* a render that also moves the particles it draws
RenderMoving ==
    /\ result = "ok"
    /\ ~panicked
    /\ renders < MaxRenders
    /\ image' = render(world, image).image
    /\ panicked' = render(world, image).panic
    /\ renders' = renders + 1
    /\ log' = Append(log, [op |-> << "render" >>, before |-> image])
    /\ world' = move_all(world)
    /\ UNCHANGED << params, result, ticks, svg, twin, seed_rng, input, appVars >>

\* world.render(&mut image)
Render ==
    /\ result = "ok"
    /\ ~panicked
    /\ renders < MaxRenders
    /\ image' = render(world, image).image
    /\ panicked' = render(world, image).panic
    /\ renders' = renders + 1
    /\ log' = Append(log, [op |-> << "render" >>, before |-> image])
    /\ UNCHANGED << worldVars, twin, seed_rng, input, appVars >>

NextRender == New \/ UpdateRendered \/ Render

SpecRender == InitRender /\ [][NextRender]_vars

\* ---- one World read by both of its observers: render and generate_svg

InitFrame ==
    /\ params \in ParamsSet({ 3 }, { -1 }, { DefaultDisplay })
    /\ world = NoWorld(params)
    /\ result = "none"
    /\ panicked = FALSE
    /\ ticks = 0
    /\ svg = << >>
    /\ image = new_image(ImageWidth, ImageHeight, BACKGROUND_COLOR)
    /\ renders = 0
    /\ log = << >>
    /\ twin = NoTwin(params)
    /\ seed_rng = 0
    /\ input = << >>
    /\ NoApp

NextFrame == New \/ UpdateRendered \/ Render \/ GenerateSvg

SpecFrame == InitFrame /\ [][NextFrame]_vars

\* ---- the Image alone: resize, clear, put_pixel

\* a w x h image whose pixels all differ from each other and from the background
Pattern(w, h) ==
    [new_image(w, h, transparent) EXCEPT
        !.pixels = [i \in 1 .. w * h |-> Color(i, i, i, 255)]]

InitImage ==
    /\ params = MakeParams(0, 0, 0, DefaultDisplay)
    /\ world = NoWorld(params)
    /\ result = "none"
    /\ panicked = FALSE
    /\ ticks = 0
    /\ svg = << >>
    /\ \E w \in 0 .. MaxDim, h \in 0 .. MaxDim : image = Pattern(w, h)
    /\ renders = 0
    /\ log = << >>
    /\ twin = NoTwin(params)
    /\ seed_rng = 0
    /\ input = << >>
    /\ NoApp

\* image.resize(width, height)
Resize ==
    /\ ~panicked
    /\ Len(log) < MaxOps
    /\ \E width \in 0 .. MaxDim, height \in 0 .. MaxDim :
        /\ image' = resize(image, width, height).image
        /\ panicked' = resize(image, width, height).panic
        /\ log' = Append(log, [op |-> << "resize", width, height >>, before |-> image])
    /\ UNCHANGED << worldVars, renders, twin, seed_rng, input, appVars >>

\* image.clear()
Clear ==
    /\ ~panicked
    /\ Len(log) < MaxOps
    /\ image' = clear(image)
    /\ log' = Append(log, [op |-> << "clear" >>, before |-> image])
    /\ UNCHANGED << worldVars, panicked, renders, twin, seed_rng, input, appVars >>

\* image.put_pixel(0, 0, BACKGROUND_COLOR); the caller keeps the index in range
PutPixel ==
    /\ ~panicked
    /\ Len(log) < MaxOps
    /\ ~pixel_out_of_range(image, 0, 0)
    /\ image' = put_pixel(image, 0, 0, BACKGROUND_COLOR)
    /\ log' = Append(log, [op |-> << "put_pixel" >>, before |-> image])
    /\ UNCHANGED << worldVars, panicked, renders, twin, seed_rng, input, appVars >>

NextImage == Resize \/ Clear \/ PutPixel

SpecImage == InitImage /\ [][NextImage]_vars

\* ---- one pixel and the colours blended onto it

\* the byte values of a channel
Level(i) == (i * 255) \div MaxLevel

\* Color::transparent() and colours of every red and alpha level, whose green
\* and blue differ from their red
Colours ==
    { transparent } \cup
    { Color(Level(i), Level(MaxLevel - i), 128, Level(k)) :
        i \in 0 .. MaxLevel, k \in 0 .. MaxLevel }

InitBlend ==
    /\ params = MakeParams(0, 0, 0, DefaultDisplay)
    /\ world = NoWorld(params)
    /\ result = "none"
    /\ panicked = FALSE
    /\ ticks = 0
    /\ svg = << >>
    /\ \E base \in Colours : image = new_image(1, 1, base)
    /\ renders = 0
    /\ log = << >>
    /\ twin = NoTwin(params)
    /\ seed_rng = 0
    /\ input = << >>
    /\ NoApp

\* image.blend_pixel(0, 0, color)
BlendPixel ==
    /\ Len(log) < MaxOps
    /\ \E color \in Colours :
        /\ image' = blend_pixel(image, 0, 0, color)
        /\ log' = Append(log, [op |-> << "blend_pixel", color >>, before |-> image])
    /\ UNCHANGED << worldVars, panicked, renders, twin, seed_rng, input, appVars >>

NextBlend == BlendPixel

SpecBlend == InitBlend /\ [][NextBlend]_vars

\* ---- the seed of the form: typed into its field, or drawn at random

\* texts with and without the prefix, one digit short, exact and one too long,
\* of digits of both cases, a sign and a letter that is no digit
SeedTexts ==
    { prefix \o digits :
        prefix \in { << >>, << "0", "x" >>, << "0", "X" >> },
        digits \in UNION { [1 .. n -> { "0", "9", "a", "F", "+", "g" }] :
                              n \in HashDigits - 1 .. HashDigits + 1 } }

InitSeed ==
    /\ params = MakeParams(0, 0, 0, DefaultDisplay)
    /\ world = NoWorld(params)
    /\ result = "none"
    /\ panicked = FALSE
    /\ ticks = 0
    /\ svg = << >>
    /\ image = NoImage
    /\ renders = 0
    /\ log = << >>
    /\ twin = NoTwin(params)
    /\ seed_rng = 0
    /\ \/ \E t \in SeedTexts : input = << "text", t >>
       \/ \E h \in 0 .. MaxHash : input = << "hash", h >>
    /\ NoApp

\* on_input_seed: sim_params.seed = Seed::from_str(event.value())
OnInputSeed ==
    /\ input # << >>
    /\ input[1] = "text"
    /\ params' = [params EXCEPT !.seed = from_str(input[2])]
    /\ UNCHANGED << world, result, panicked, ticks, svg, imageVars, twin, seed_rng, input, appVars >>

\* on_click_rand_seed once seed_rng has drawn: sim_params.seed = Seed::from_hash(seed)
OnClickRandSeedDrawn ==
    /\ input # << >>
    /\ input[1] = "hash"
    /\ params' = [params EXCEPT !.seed = from_hash(input[2])]
    /\ UNCHANGED << world, result, panicked, ticks, svg, imageVars, twin, seed_rng, input, appVars >>

NextSeed == OnInputSeed \/ OnClickRandSeedDrawn

SpecSeed == InitSeed /\ [][NextSeed]_vars

\* ---- two Worlds of one seed and two palettes

InitPalette ==
    /\ params \in ParamsSet(3 .. 4, { -1 }, { DefaultDisplay, OpaqueDisplay })
    /\ world = NoWorld(params)
    /\ result = "none"
    /\ panicked = FALSE
    /\ ticks = 0
    /\ svg = << >>
    /\ image = NoImage
    /\ renders = 0
    /\ log = << >>
    /\ twin = NoTwin(params)
    /\ seed_rng = 0
    /\ input = << >>
    /\ NoApp

\* on_input_particle_color_*: the colour parameters are set
OnInputParticleColor ==
    /\ \E d \in { DefaultDisplay, OpaqueDisplay } :
          params' = MakeParams(params.particle_count, as_hash(params.seed), params.acc_limit, d)
    /\ UNCHANGED << world, result, panicked, ticks, svg, imageVars, twin, seed_rng, input, appVars >>

\* World::new(&params) for the second World
NewSecond ==
    /\ twin.result = "none"
    /\ twin' = IF check(params)
               THEN [twin EXCEPT !.world = new_world(params), !.result = "ok"]
               ELSE [twin EXCEPT !.result = "err"]
    /\ UNCHANGED << worldVars, panicked, imageVars, seed_rng, input, appVars >>

NextPalette == New \/ OnInputParticleColor \/ NewSecond

SpecPalette == InitPalette /\ [][NextPalette]_vars

\* ---- two Worlds side by side, and the application's own random source

InitTwin ==
    /\ params \in ParamsSet(3 .. 4, -MaxAccLimit .. MaxAccLimit, { DefaultDisplay })
    /\ world = NoWorld(params)
    /\ result = "none"
    /\ panicked = FALSE
    /\ ticks = 0
    /\ svg = << >>
    /\ image = NoImage
    /\ renders = 0
    /\ log = << >>
    /\ twin = NoTwin(params)
    /\ seed_rng = 0
    /\ input = << >>
    /\ NoApp

\* on_click_rand_seed: sim_params.seed = Seed::from_hash(seed_rng.gen())
OnClickRandSeed ==
    /\ seed_rng < MaxRandSeeds
    /\ seed_rng' = seed_rng + 1
    /\ params' = [params EXCEPT !.seed = from_hash(thread_rng_value(seed_rng + 1))]
    /\ UNCHANGED << world, result, panicked, ticks, svg, imageVars, twin, input, appVars >>

\* World::new(&params) for the first World
NewFirst == New

\* update() of the first World
UpdateFirst ==
    /\ ticks < MaxRenderTicks
    /\ Update

\* update() of the second World
UpdateSecond ==
    /\ twin.result = "ok"
    /\ ~twin.panicked
    /\ twin.ticks < MaxRenderTicks
    /\ twin' = [twin EXCEPT !.world = update(twin.world).world,
                            !.panicked = update(twin.world).panic,
                            !.ticks = twin.ticks + 1]
    /\ UNCHANGED << worldVars, panicked, imageVars, seed_rng, input, appVars >>

NextTwin == OnClickRandSeed \/ NewFirst \/ NewSecond \/ UpdateFirst \/ UpdateSecond

SpecTwin == InitTwin /\ [][NextTwin]_vars

\* ------------------------------------------------- World::new and update

\* C1: World::new fails exactly when particle_count < 3; when it succeeds,
\* positions, velocities, partners and colors each hold particle_count
\* elements, at construction and after every update().
C1_NewValidatesCount ==
    /\ result # "none" => (result = "err" <=> params.particle_count < 3)
    /\ result = "ok" =>
        /\ Len(world.positions) = params.particle_count
        /\ Len(world.velocities) = params.particle_count
        /\ Len(world.partners) = params.particle_count
        /\ Len(world.colors) = params.particle_count

\* a World of three or more particles, built and updated MaxTicks times
C1_Updated ==
    /\ result = "ok"
    /\ ticks = MaxTicks
    /\ Len(world.positions) = params.particle_count

\* partners[i] = (j, k) of w: i, j, k are three different indices of w
PartnersDistinct(w) ==
    \A i \in 1 .. Len(w.partners) :
        /\ w.partners[i][1] # i - 1
        /\ w.partners[i][2] # i - 1
        /\ w.partners[i][1] # w.partners[i][2]
        /\ w.partners[i][1] \in idxs(w.params)
        /\ w.partners[i][2] \in idxs(w.params)

\* C2: in every constructed World, partners[i] = (j, k) has i # j, i # k,
\* j # k and j, k in [0, particle_count), at construction and after updates.
C2_PartnerInvariant ==
    result = "ok" =>
        Len(world.partners) = params.particle_count /\ PartnersDistinct(world)

\* an updated World in which some particle's second partner was drawn below its first
C2_DrawnAndUpdated ==
    /\ result = "ok"
    /\ ticks >= 1
    /\ \E i \in 1 .. Len(world.partners) : world.partners[i][2] < world.partners[i][1]

\* C3: history.len() * particle_count * size_of(Vec2) never exceeds
\* HISTORY_MEMORY_CAP, for every particle_count World::new accepts.
C3_HistoryWithinCap ==
    result = "ok" =>
        Len(world.history) * params.particle_count * SizeOfVec2 <= HISTORY_MEMORY_CAP

\* C4: whenever update() evicts, the history after the call is the history
\* before it without its first snapshot, the others in order, and the new
\* positions appended last.
C4_EvictsOldestFirst ==
    [][(Update /\ must_evict(world)) =>
          world'.history = Append(Tail(world.history), world'.positions)]_vars

\* C5: no update() and no generate_svg() on a constructed World panics.
C5_NeverPanics == ~panicked

\* ------------------------------------------------------- Image::resize

\* the last operation made on the image
LastOp == log[Len(log)]

\* the old coordinate shown at coordinate c2 of an axis resized from n1 to n2:
\* displaced by floor((larger - smaller) / 2)
Displaced(c2, n1, n2) ==
    IF n2 >= n1 THEN c2 - (n2 - n1) \div 2 ELSE c2 + (n1 - n2) \div 2

\* the old pixel centred at old coordinate (x1, y1), the background outside the old image
OldPixel(old, x1, y1) ==
    IF x1 \in 0 .. old.width - 1 /\ y1 \in 0 .. old.height - 1
    THEN old.pixels[x1 + y1 * old.width + 1]
    ELSE old.background

\* the pixels of old centred in a w2 x h2 buffer
Centred(old, w2, h2) ==
    [i \in 1 .. w2 * h2 |->
        OldPixel(old, Displaced((i - 1) % w2, old.width, w2),
                      Displaced((i - 1) \div w2, old.height, h2))]

\* C6: resize(w2, h2) yields a w2 x h2 image whose overlap with the old
\* image is the old content displaced by floor((larger - smaller) / 2) on
\* each axis, and whose other pixels are the background.
C6_ResizeCentres ==
    (log # << >> /\ LastOp.op[1] = "resize") =>
        /\ ~panicked
        /\ image.width = LastOp.op[2]
        /\ image.height = LastOp.op[3]
        /\ image.pixels = Centred(LastOp.before, LastOp.op[2], LastOp.op[3])

\* C7: resize(w2, h2) with w2 >= w1, h2 >= h1 followed by resize(w1, h1)
\* completes and gives back the original width, height and pixels.
C7_GrowThenShrinkRestores ==
    (/\ Len(log) >= 2
     /\ log[Len(log) - 1].op[1] = "resize"
     /\ log[Len(log) - 1].op[2] >= log[Len(log) - 1].before.width
     /\ log[Len(log) - 1].op[3] >= log[Len(log) - 1].before.height
     /\ LastOp.op = << "resize", log[Len(log) - 1].before.width,
                       log[Len(log) - 1].before.height >>) =>
        ~panicked /\ image = log[Len(log) - 1].before

\* ---------------------------------------------------------- determinism

GuardBits == 13 - MantissaBits

\* every scaled magnitude is cut off here: four times the scaled unit
ScaleCap == Pow2(MantissaBits + GuardBits + 1)

\* floor(|a| * 2^(MantissaBits + GuardBits - j)), cut off at ScaleCap
ScaledLo(a, j) ==
    IF a.m = 0 THEN 0
    ELSE IF a.e - j + MantissaBits + GuardBits > GuardBits + 1 THEN ScaleCap
    ELSE IF a.e - j + MantissaBits + GuardBits >= 0
         THEN Min(ScaleCap, Abs(a.m) * Pow2(a.e - j + MantissaBits + GuardBits))
    ELSE IF a.e - j + MantissaBits + GuardBits < -MantissaBits THEN 0
    ELSE Abs(a.m) \div Pow2(-(a.e - j + MantissaBits + GuardBits))

\* ceiling(|a| * 2^(MantissaBits + GuardBits - j)), cut off at ScaleCap
ScaledHi(a, j) ==
    IF a.m = 0 THEN 0
    ELSE IF a.e - j + MantissaBits + GuardBits >= 0 THEN ScaledLo(a, j)
    ELSE IF a.e - j + MantissaBits + GuardBits < -MantissaBits THEN 1
    ELSE IF Abs(a.m) % Pow2(-(a.e - j + MantissaBits + GuardBits)) = 0 THEN ScaledLo(a, j)
    ELSE ScaledLo(a, j) + 1

\* 2^j * (1 + k * 2^-MantissaBits), scaled: the length 2^j, k unit roundoffs over
Limit(k) == Pow2(MantissaBits + GuardBits) + k * Pow2(GuardBits)

\* the length of v is surely at most 2^j * (1 + k * 2^-MantissaBits)
Within(v, j, k) ==
    ScaledHi(v.x, j) * ScaledHi(v.x, j) + ScaledHi(v.y, j) * ScaledHi(v.y, j)
        <= Limit(k) * Limit(k)

\* the length of v is surely more than 2^j * (1 + k * 2^-MantissaBits)
Exceeds(v, j, k) ==
    ScaledLo(v.x, j) * ScaledLo(v.x, j) + ScaledLo(v.y, j) * ScaledLo(v.y, j)
        > Limit(k) * Limit(k)

\* the acceleration update() adds to the velocity of particle i (1-based) of w
AccOf(w, i) == acceleration(w.positions, w.partners, i - 1, exp2(w.params.acc_limit))

\* C9 as stated: after update() no velocity is longer than 1.0, and no
\* acceleration added in the tick is longer than 2^acc_limit.
C9_ClampedExactly ==
    [][Update =>
          /\ \A i \in 1 .. Len(world.positions) :
                ~Exceeds(AccOf(world, i), params.acc_limit, 0)
          /\ \A i \in 1 .. Len(world.positions) :
                ~Exceeds(world'.velocities[i], 0, 0)]_vars

\* C9: after update() every velocity is at most 1.0 * (1 + 4u) long and every
\* acceleration added in the tick at most 2^acc_limit * (1 + 4u) long, u the
\* unit roundoff 2^-MantissaBits; each position moved by its new velocity,
\* the sum rounded to f32.
C9_ClampedUpToRounding ==
    [][Update =>
          /\ \A i \in 1 .. Len(world.positions) :
                Within(AccOf(world, i), params.acc_limit, 4)
          /\ \A i \in 1 .. Len(world.positions) :
                Within(world'.velocities[i], 0, 4)
          /\ \A i \in 1 .. Len(world.positions) :
                world'.positions[i] = VAdd(world.positions[i], world'.velocities[i])]_vars

\* an updated World with a clamped velocity that rounding left longer than 1.0
C9_RoundedOver ==
    /\ result = "ok"
    /\ ticks >= 1
    /\ \E i \in 1 .. Len(world.velocities) : Exceeds(world.velocities[i], 0, 0)

\* ------------------------------------------------------ repeated render

\* the pixels (x, y) of img that render(w, img) blends into
Splats(w, img) ==
    UNION { footprint(img, FAdd(w.positions[i].x, FDiv(FromInt(img.width), FromInt(2))),
                           FAdd(w.positions[i].y, FDiv(FromInt(img.height), FromInt(2)))) :
              i \in 1 .. Len(w.positions) }

\* the pixel (x, y) of img
PixelAt(img, x, y) == img.pixels[x + y * img.width + 1]

C11_ObserversLeaveWorld ==
    [][/\ Render => /\ world' = world
                    /\ params' = params
                    /\ svg' = svg
       /\ GenerateSvg => /\ world' = world
                         /\ params' = params
                         /\ image' = image]_vars

\* a moved World was rendered into a changed image and written out as svg
C11_Observed ==
    /\ ticks > 0
    /\ renders > 0
    /\ image # log[1].before
    /\ svg = << generate_svg(world, BACKGROUND_COLOR) >>

\* the colour that the last blend_pixel composited over the pixel
Top == LastOp.op[2]

\* the pixel before the last operation
Bottom == LastOp.before.pixels[1]

\* C12: for every base colour B and every top colour T with alpha 255,
\* B.blend(T) is T in all four channels
C12_OpaqueTopReplaces ==
    (log # << >> /\ Top.a = 255) => image.pixels[1] = Top

\* an opaque colour was blended onto a translucent pixel of different channels
C12_OpaqueOverTranslucent ==
    /\ log # << >>
    /\ Top.a = 255
    /\ Bottom.a \in 1 .. 254
    /\ Bottom.r # Top.r
    /\ Bottom.g # Top.g

\* C13: for every colour X, whatever its alpha, X.blend(Color::transparent())
\* is X in all four channels
C13_TransparentTopKeeps ==
    (log # << >> /\ Top = transparent) => image.pixels[1] = Bottom

\* the path of particle i (from 1) in doc traces that particle through w.history
TracesParticle(doc, w, i) ==
    /\ Len(doc.paths[i].d) = Len(w.history)
    /\ \A s \in 1 .. Len(w.history) :
          /\ doc.paths[i].d[s][1] = (IF s = 1 THEN "M" ELSE "L")
          /\ doc.paths[i].d[s][2] = w.history[s][i].x
          /\ doc.paths[i].d[s][3] = w.history[s][i].y

\* C14: generate_svg emits exactly particle_count paths, in index order;
\* the path of particle i holds exactly history.len() commands, an M and then
\* only L, at history[0][i], history[1][i], ...; with no update() made each
\* path is a single M at the particle's initial position
C14_SvgPaths ==
    [][(GenerateSvg /\ ~panicked') =>
          /\ Len(svg') = 1
          /\ Len(svg'[1].paths) = world.params.particle_count
          /\ \A i \in 1 .. world.params.particle_count :
                /\ TracesParticle(svg'[1], world, i)
                /\ ticks = 0 =>
                      svg'[1].paths[i].d =
                          << << "M", world.positions[i].x, world.positions[i].y >> >>]_vars

\* an svg was generated of a World whose particles have moved twice
C14_PolylineWritten ==
    /\ svg # << >>
    /\ ticks >= 2
    /\ ~panicked
    /\ Len(svg[1].paths) >= 3
    /\ Len(svg[1].paths[1].d) >= 3
    /\ svg[1].paths[1].d[3][2] = world.positions[1].x
    /\ svg[1].paths[1].d[3] # svg[1].paths[1].d[1]

\* t is "0x" followed by exactly HashDigits hexadecimal digits
IsCanonical(t) ==
    /\ Len(t) = 2 + HashDigits
    /\ t[1] = "0"
    /\ t[2] = "x"
    /\ \A i \in 3 .. Len(t) : CharCode(t[i]) <= 22

\* the number that the hexadecimal digits ds write
HexValue(ds) ==
    LET place(i) == to_digit(ds[i]) * (16 ^ (Len(ds) - i))
        sum[i \in 0 .. Len(ds)] == IF i = 0 THEN 0 ELSE sum[i - 1] + place(i)
    IN  sum[Len(ds)]

\* C15: a seed text "0x" + 16 hex digits resolves to the value its digits
\* write; Seed::from_hash(h).as_str() has that form and
\* Seed::from_str(Seed::from_hash(h).as_str()).as_hash() is h, for every h
C15_SeedRoundTrip ==
    [][/\ OnClickRandSeedDrawn =>
             /\ as_hash(params'.seed) = input[2]
             /\ IsCanonical(as_str(params'.seed))
             /\ as_hash(from_str(as_str(params'.seed))) = input[2]
       /\ (OnInputSeed /\ IsCanonical(input[2])) =>
             as_hash(params'.seed) = HexValue(SubSeq(input[2], 3, Len(input[2])))]_vars

\* a seed was made from a hash whose text needs a leading zero, or from a
\* canonical text with a digit in upper case
C15_SeedSet ==
    \/ /\ input = << "hash", 10 >>
       /\ params.seed = from_hash(10)
    \/ /\ input # << >>
       /\ input[1] = "text"
       /\ IsCanonical(input[2])
       /\ input[2][3] = "F"
       /\ params.seed = from_str(input[2])

\* C16: World::new draws its four sub-seeds in the order positions,
\* velocities, partners, colors, one stream each: two Worlds of the same seed
\* and particle_count whose colour parameters differ have the same positions,
\* velocities and partners
C16_ColoursPerturbNothing ==
    (/\ result = "ok"
     /\ twin.result = "ok"
     /\ world.params.seed = twin.world.params.seed
     /\ world.params.particle_count = twin.world.params.particle_count) =>
        /\ world.positions = twin.world.positions
        /\ world.velocities = twin.world.velocities
        /\ world.partners = twin.world.partners
        /\ world.positions = new_positions(world.params, 0,
                                  with_rng(as_hash(world.params.seed), 1))
        /\ world.partners = new_partners(world.params, 0,
                                 with_rng(as_hash(world.params.seed), 3))
        /\ world.colors = new_colors(world.params, 0,
                               with_rng(as_hash(world.params.seed), 4))

\* two Worlds of one seed were built with different palettes and got
\* different colours
C16_TwoPalettes ==
    /\ result = "ok"
    /\ twin.result = "ok"
    /\ world.params.seed = twin.world.params.seed
    /\ world.params.particle_color_alpha # twin.world.params.particle_color_alpha
    /\ world.colors # twin.world.colors

\* particle i (from 1) of post is particle i of pre after one synchronous tick:
\* steered by the positions that it and its two partners have in pre, then moved
\* by its new velocity
Stepped(pre, post, i) ==
    /\ post.velocities[i] =
          clamp_length_max(
              VAdd(pre.velocities[i],
                   steer(pre.positions[i],
                         pre.positions[pre.partners[i][1] + 1],
                         pre.positions[pre.partners[i][2] + 1],
                         exp2(pre.params.acc_limit))),
              One)
    /\ post.positions[i] = VAdd(pre.positions[i], post.velocities[i])

\* C17: update() is a synchronous tick: the new velocity of every particle
\* comes from the pre-tick positions of itself and its two partners only,
\* and position_i(post) = position_i(pre) + velocity_i(post) for every i,
\* whatever the order in which the particles are processed
C17_SynchronousTick ==
    [][Update => \A i \in 1 .. world.params.particle_count :
                    Stepped(world, world', i)]_vars

\* after two ticks a particle moves whose partner comes before it in the
\* processing order and has moved too
C17_LaterPartnerMoved ==
    /\ ticks >= 2
    /\ ~panicked
    /\ \E i \in 1 .. world.params.particle_count :
          /\ world.partners[i][1] + 1 < i
          /\ world.velocities[i] # Vec2(Zero, Zero)
          /\ world.velocities[world.partners[i][1] + 1] # Vec2(Zero, Zero)

\* a and b lie on one ray from the origin: their cross product is zero and
\* their dot product positive
SameDirection(a, b) ==
    /\ FMul(a.x, b.y) = FMul(a.y, b.x)
    /\ FLt(Zero, dot(a, b))

\* pos lies at the fraction i / count of a full turn, at a radius in [9, 10)
OnRing(pos, i, count) ==
    \E k \in 0 .. 14 :
        pos = polar(FromRatio(15 * 9 + k, 15),
                    lerp(FromInt(i), Zero, FromInt(count), Zero, TwoPi))

\* C18: World::new puts particle i at the angle lerp(i, 0, particle_count,
\* 0, 2 pi) and at a radius in [9, 10): an evenly spaced ring on which no two
\* particles share the direction from the origin
C18_EvenRing ==
    (result = "ok" /\ ticks = 0) =>
        /\ \A i \in 1 .. params.particle_count :
              OnRing(world.positions[i], i - 1, params.particle_count)
        /\ \A i \in 1 .. params.particle_count :
              \A j \in i + 1 .. params.particle_count :
                  ~SameDirection(world.positions[i], world.positions[j])

\* the history h2 that one update() leaves of h1: one snapshot more, or as many
\* as before once snapshots are evicted, the newest being the positions now
Lengthened(h1, h2, evicts, positions) ==
    /\ Len(h2) = (IF evicts THEN Len(h1) ELSE Len(h1) + 1)
    /\ h2[Len(h2)] = positions
    /\ ~evicts => SubSeq(h2, 1, Len(h1)) = h1

\* C19: a new World's history is the one snapshot of its initial positions;
\* each update() appends exactly one snapshot, so history.len() is 1 + the
\* number of update() calls until the cap is reached, and stays constant once
\* eviction has started
C19_HistoryLength ==
    [][/\ (New /\ result' = "ok") => world'.history = << world'.positions >>
       /\ Update =>
             /\ Lengthened(world.history, world'.history, must_evict(world),
                           world'.positions)
             /\ ~must_evict(world) => Len(world'.history) = 1 + ticks']_vars

\* C20: update() changes positions, velocities and history only: colors,
\* partners and params of a World are what World::new made them, after any
\* number of update() calls
C20_UpdateKeepsRest ==
    result = "ok" =>
        /\ world.params = params
        /\ world.colors = new_world(params).colors
        /\ world.partners = new_world(params).partners

\* a World updated MaxTicks times, whose particles have left their first places
C20_UpdatedThroughout ==
    /\ result = "ok"
    /\ ticks = MaxTicks
    /\ ~panicked
    /\ world.positions # new_world(params).positions
    /\ world.velocities # new_world(params).velocities
    /\ Len(world.history) > 1

\* ------------------------------------------------------- draw_particle

\* the weights that the pairs of one axis carry, in order
Weights(pairs) ==
    (IF pairs[1] = << >> THEN << >> ELSE << pairs[1][1].f >>)
        \o (IF pairs[2] = << >> THEN << >> ELSE << pairs[2][1].f >>)

\* the shifted coordinate x of an axis of w pixels is off the image
OffAxis(x, w) == FLe(x, FNeg(One)) \/ FLe(FromInt(w), x)

\* the pairs of the axis coordinate x0 of w pixels are as the weights are
\* described: none off the image, else one pixel of weight 1 or two pixels
\* whose weights sum to 1
WeightsSumToOne(x0, w) ==
    IF OffAxis(FSub(x0, FromRatio(1, 2)), w)
    THEN Weights(calc(x0, w)) = << >>
    ELSE \/ Weights(calc(x0, w)) = << One >>
         \/ /\ Len(Weights(calc(x0, w))) = 2
            /\ FAdd(Weights(calc(x0, w))[1], Weights(calc(x0, w))[2]) = One

\* the image coordinates at which render draws particle i (from 1) of w
DrawnX(w, img, i) == FAdd(w.positions[i].x, FDiv(FromInt(img.width), FromInt(2)))

DrawnY(w, img, i) == FAdd(w.positions[i].y, FDiv(FromInt(img.height), FromInt(2)))

\* C21: in draw_particle, on each axis whose shifted coordinate is inside
\* the image the weights of the one or two covered pixels sum to 1, a single
\* covered pixel at an edge has weight 1, and an axis whose shifted coordinate
\* is at or beyond the dimension or at or below -1 writes no pixel
C21_WeightsSumToOne ==
    [][Render =>
          \A i \in 1 .. world.params.particle_count :
              /\ WeightsSumToOne(DrawnX(world, image, i), image.width)
              /\ WeightsSumToOne(DrawnY(world, image, i), image.height)]_vars

\* ------------------------------------------------------------ steering

\* the positions of the first and the second partner of particle i (from 1) of w
Partner1(w, i) == w.positions[w.partners[i][1] + 1]

Partner2(w, i) == w.positions[w.partners[i][2] + 1]

\* the t that update() uses for particle i (from 1) of w
TOf(w, i) ==
    steer_t(w.positions[i], Partner1(w, i), Partner2(w, i),
            distance_squared(Partner2(w, i), Partner1(w, i)))

\* C22: in every tick the t of every particle is >= 1, and where the two
\* partners coincide (zero denominator) t is exactly 1 and the target is the
\* second partner's position: the target is never strictly between the two
C22_TAtLeastOne ==
    [][Update =>
          \A i \in 1 .. world.params.particle_count :
              /\ FLe(One, TOf(world, i))
              /\ distance_squared(Partner2(world, i), Partner1(world, i)) = Zero =>
                    /\ TOf(world, i) = One
                    /\ target_pos(Partner1(world, i), Partner2(world, i), TOf(world, i))
                          = Partner2(world, i)]_vars

\* the World with the positions of its snapshot s, which the update() after
\* that snapshot read
AtSnapshot(s) == [world EXCEPT !.positions = world.history[s]]

\* of the update() calls made, one steered a particle beyond its second
\* partner (t > 1) and one a particle whose two partners were at the same place
C22_BothCases ==
    /\ result = "ok"
    /\ ~panicked
    /\ ticks >= 1
    /\ \E s \in 1 .. Len(world.history) - 1 :
          \E i \in 1 .. world.params.particle_count : FLt(One, TOf(AtSnapshot(s), i))
    /\ \E s \in 1 .. Len(world.history) - 1 :
          \E i \in 1 .. world.params.particle_count :
              Partner1(AtSnapshot(s), i) = Partner2(AtSnapshot(s), i)

\* ------------------------------------------------------ blend, Ac = 0

\* C23: when the composited alpha Ac = Atop + Abot * (1 - Atop) is 0, both
\* colours having alpha 0, blend returns the all-zero transparent colour
\* whatever the r, g, b of either colour, and does not fail
C23_ZeroAlphaIsTransparent ==
    (log # << >> /\ Top.a = 0 /\ Bottom.a = 0) =>
        /\ image.pixels[1] = transparent
        /\ ~panicked

\* a colour of alpha 0 was blended onto a pixel of alpha 0, both with
\* channels that are not zero
C23_ColouredZeroAlpha ==
    /\ log # << >>
    /\ Top.a = 0
    /\ Bottom.a = 0
    /\ Top.r # 0
    /\ Bottom.g # 0
    /\ Bottom.b # 0

\* ------------------------------------- WorldRenderer (renderer.rs) and App

\* the cap on the animation-frame callbacks requested and not yet run
MaxFrames == 3

\* the largest frame limit entered
MaxFrameLimit == 3

\* window.request_animation_frame(closure)
request_animation_frame(win) == [win EXCEPT !.frames = @ + 1]

\* WorldRenderer::new: the flags of the renderer; it draws the World once and
\* requests the first frame
new_renderer == [paused |-> FALSE, frame_idx |-> 0]

\* WorldRenderer::restart_render_loop
restart_render_loop(win) == request_animation_frame(win)

\* WorldRenderer::pause_resume: [renderer, window]
pause_resume(r, win) ==
    [renderer |-> [r EXCEPT !.paused = ~r.paused],
     window |-> IF r.paused THEN restart_render_loop(win) ELSE win]

\* WorldRenderer::resume: [renderer, window]
resume(r, win) ==
    [renderer |-> [r EXCEPT !.paused = FALSE],
     window |-> IF r.paused THEN restart_render_loop(win) ELSE win]

\* the end of WorldRenderer::clear, drawn being what world.render(image) gave
renderer_cleared(r, drawn) ==
    [renderer |-> [r EXCEPT !.frame_idx = 0], image |-> drawn.image,
     panic |-> drawn.panic]

\* WorldRenderer::clear: [renderer, image, panic]
renderer_clear(r, w, img) == renderer_cleared(r, render(w, clear(img)))

\* what one run of the frame closure leaves: [world, image, renderer, updated,
\* rearm, panic]; updated says that world.update() was called, rearm that the
\* closure requested the next frame
FrameOutcome(w, img, r, updated, rearm, panic) ==
    [world |-> w, image |-> img, renderer |-> r, updated |-> updated,
     rearm |-> rearm, panic |-> panic]

\* the end of the frame closure, drawn being what world.render(image) gave
frame_drawn(w, drawn, r) ==
    IF drawn.panic
    THEN FrameOutcome(w, drawn.image, r, TRUE, FALSE, TRUE)
    ELSE FrameOutcome(w, drawn.image, [r EXCEPT !.frame_idx = @ + 1],
                      TRUE, TRUE, FALSE)

\* the frame closure after world.update(), updated being what it gave
frame_updated(updated, img, r) ==
    IF updated.panic
    THEN FrameOutcome(updated.world, img, r, TRUE, FALSE, TRUE)
    ELSE frame_drawn(updated.world, render(updated.world, img), r)

\* the frame closure from world.update() on
frame_updating(w, img, r) == frame_updated(update(w), img, r)

\* a frame closure that does not look at the paused flag
frame_while_paused(w, img, r, limit) ==
    IF limit > 0 /\ r.frame_idx >= limit
    THEN FrameOutcome(w, img, [r EXCEPT !.paused = TRUE], FALSE, FALSE, FALSE)
    ELSE frame_updating(w, img, r)

\* a frame closure that compares frame_idx with the limit by > and not >=
frame_past_limit(w, img, r, limit) ==
    IF r.paused
    THEN FrameOutcome(w, img, r, FALSE, FALSE, FALSE)
    ELSE IF limit > 0 /\ r.frame_idx > limit
         THEN FrameOutcome(w, img, [r EXCEPT !.paused = TRUE], FALSE, FALSE, FALSE)
         ELSE frame_updating(w, img, r)

\* the frame closure of WorldRenderer::new
frame(w, img, r, limit) ==
    IF r.paused
    THEN FrameOutcome(w, img, r, FALSE, FALSE, FALSE)
    ELSE IF limit > 0 /\ r.frame_idx >= limit
         THEN FrameOutcome(w, img, [r EXCEPT !.paused = TRUE], FALSE, FALSE, FALSE)
         ELSE frame_updating(w, img, r)

\* the application once the canvas is mounted: the World built, the renderer
\* constructed over it, the first frame requested
InitLoop ==
    /\ params \in ParamsSet(3 .. 5, { -1 }, { DefaultDisplay })
    /\ world = new_world(params)
    /\ result = "ok"
    /\ panicked = FALSE
    /\ ticks = 0
    /\ svg = << >>
    /\ image = render(world, new_image(ImageWidth, ImageHeight, BACKGROUND_COLOR)).image
    /\ renders = 0
    /\ log = << >>
    /\ twin = NoTwin(params)
    /\ seed_rng = 0
    /\ input = << >>
    /\ renderer = << new_renderer >>
    /\ frame_limit \in 1 .. MaxFrameLimit
    /\ window = request_animation_frame(NoWindow)
    /\ history_push_state_timeout_handle = << >>
    /\ effects = {}

\* the browser runs one requested animation-frame callback; ticks counts the
\* update() calls on the current World
FrameCallback ==
    /\ renderer # << >>
    /\ ~panicked
    /\ window.frames > 0
    /\ \E fired \in { frame(world, image, renderer[1], frame_limit) } :
           /\ world' = fired.world
           /\ image' = fired.image
           /\ renderer' = << fired.renderer >>
           /\ panicked' = fired.panic
           /\ ticks' = IF fired.updated THEN ticks + 1 ELSE ticks
           /\ window' = IF fired.rearm
                        THEN request_animation_frame([window EXCEPT !.frames = @ - 1])
                        ELSE [window EXCEPT !.frames = @ - 1]
    /\ UNCHANGED << params, result, svg, renders, log, twin, seed_rng, input,
                    frame_limit, history_push_state_timeout_handle, effects >>

\* on_click_pause_resume
OnClickPauseResume ==
    /\ renderer # << >>
    /\ ~panicked
    /\ renderer[1].paused => window.frames < MaxFrames
    /\ renderer' = << pause_resume(renderer[1], window).renderer >>
    /\ window' = pause_resume(renderer[1], window).window
    /\ UNCHANGED << params, world, result, panicked, ticks, svg, image, renders, log,
                    twin, seed_rng, input, frame_limit,
                    history_push_state_timeout_handle, effects >>

\* on_input_frame_limit with a number in the field; of the effects that read
\* frame_limit only the renderer's part is followed here, the URL writer is
\* followed in SpecUrl
OnInputFrameLimit ==
    /\ renderer # << >>
    /\ ~panicked
    /\ renderer[1].paused => window.frames < MaxFrames
    /\ \E entered \in 0 .. MaxFrameLimit :
           frame_limit' = IF entered >= 1 THEN entered ELSE 1
    /\ renderer' = << resume(renderer[1], window).renderer >>
    /\ window' = resume(renderer[1], window).window
    /\ UNCHANGED << params, world, result, panicked, ticks, svg, image, renders, log,
                    twin, seed_rng, input, history_push_state_timeout_handle, effects >>

\* on_click_reset: sim_params.write() wakes the effect that rebuilds the World
OnClickReset ==
    /\ renderer # << >>
    /\ ~panicked
    /\ "world" \notin effects
    /\ effects' = effects \cup { "world" }
    /\ UNCHANGED << params, world, result, panicked, ticks, svg, image, renders, log,
                    twin, seed_rng, input, renderer, frame_limit, window,
                    history_push_state_timeout_handle >>

\* the effect that rebuilds the World: World::new, world.set and, with a
\* renderer, clear() and resume(); a World that cannot be built leaves all as
\* it is
RebuildWorld ==
    /\ "world" \in effects
    /\ ~panicked
    /\ (renderer # << >> /\ renderer[1].paused) => window.frames < MaxFrames
    /\ effects' = effects \ { "world" }
    /\ IF ~check(params)
       THEN UNCHANGED << world, ticks, image, panicked, renderer, window >>
       ELSE \E new \in { new_world(params) } :
                /\ world' = new
                /\ ticks' = 0
                /\ IF renderer = << >>
                   THEN UNCHANGED << image, panicked, renderer, window >>
                   ELSE \E cleared \in { renderer_clear(renderer[1], new, image) } :
                            /\ image' = cleared.image
                            /\ panicked' = cleared.panic
                            /\ renderer' = << resume(cleared.renderer, window).renderer >>
                            /\ window' = resume(cleared.renderer, window).window
    /\ UNCHANGED << params, result, svg, renders, log, twin, seed_rng, input,
                    frame_limit, history_push_state_timeout_handle >>

NextLoop ==
    FrameCallback \/ OnClickPauseResume \/ OnInputFrameLimit \/ OnClickReset \/ RebuildWorld

SpecLoop == InitLoop /\ [][NextLoop]_vars

\* the delivery of a requested animation frame as the window and the flags of
\* the renderer show it: the callback leaves the queue and is not requested
\* again (the renderer was paused, is paused now, or the closure panicked), or
\* it is requested again after a frame was counted
Delivery ==
    /\ renderer # << >>
    /\ ~panicked
    /\ window.frames > 0
    /\ \/ /\ window' = [window EXCEPT !.frames = @ - 1]
          /\ renderer' \in { renderer, << [renderer[1] EXCEPT !.paused = TRUE] >> }
       \/ /\ window' = window
          /\ renderer' = << [renderer[1] EXCEPT !.frame_idx = @ + 1] >>

\* the render loop left alone: the user neither pauses nor changes a parameter,
\* and the browser delivers every animation frame that was requested (every
\* step of this specification is a FrameCallback step, so the deliveries that
\* the fairness condition asks for are runs of the frame closure)
SpecLoopFair ==
    InitLoop /\ [][FrameCallback]_vars /\ WF_<< window, renderer >>(Delivery)

\* C24: at any time at most one animation-frame callback of the renderer is
\* requested and not yet run, whatever the order of frame callbacks,
\* pause/resume clicks and frame-limit inputs
C24_OneFramePending == renderer # << >> => window.frames <= 1

\* C25: a frame callback that runs while the renderer is paused updates
\* nothing: the World, the image and frame_idx stay as they are, no update()
\* is counted and the callback is not requested again
C25_PausedFrameIsIdle ==
    [][(FrameCallback /\ renderer[1].paused) =>
           /\ world' = world
           /\ image' = image
           /\ renderer' = renderer
           /\ ticks' = ticks
           /\ ~panicked'
           /\ window'.frames = window.frames - 1]_vars

\* a frame was delivered to a paused renderer whose World had already moved
C25_FrameWhilePaused ==
    /\ renderer # << >>
    /\ renderer[1].paused
    /\ renderer[1].frame_idx >= 1
    /\ renderer[1].frame_idx < frame_limit
    /\ window.frames = 0
    /\ ~panicked

\* C26: while the frame limit stays as it is, frame_idx never passes it; a
\* frame callback calls update() only with frame_idx below the limit, and one
\* that finds frame_idx at the limit or beyond pauses the renderer, updates
\* nothing and is not requested again, also after a resume
C26_FrameLimitHolds ==
    [][/\ (frame_limit' = frame_limit /\ renderer[1].frame_idx <= frame_limit)
              => renderer'[1].frame_idx <= frame_limit
       /\ (FrameCallback /\ ticks' # ticks) => renderer[1].frame_idx < frame_limit
       /\ (FrameCallback /\ renderer[1].frame_idx >= frame_limit) =>
              /\ renderer'[1].paused
              /\ renderer'[1].frame_idx = renderer[1].frame_idx
              /\ world' = world
              /\ image' = image
              /\ ticks' = ticks
              /\ window'.frames = window.frames - 1]_vars

\* the loop ran up to a limit of several frames and the callback that found
\* the limit reached paused the renderer
C26_PausedAtLimit ==
    /\ renderer # << >>
    /\ frame_limit >= 2
    /\ renderer[1].frame_idx = frame_limit
    /\ ticks = frame_limit
    /\ renderer[1].paused
    /\ window.frames = 0

\* C27: left alone with a fixed frame limit above zero and with the requested
\* frames delivered, the render loop eventually has frame_idx = frame_limit
\* and is paused; until then every delivered frame calls update() once and
\* requests exactly one further callback
C27_LoopReachesLimit ==
    /\ <>(renderer[1].frame_idx = frame_limit /\ renderer[1].paused)
    /\ [][(FrameCallback /\ renderer[1].frame_idx < frame_limit) =>
              /\ ticks' = ticks + 1
              /\ renderer'[1].frame_idx = renderer[1].frame_idx + 1
              /\ window'.frames = window.frames]_vars

\* ------------------------------------------ draw_particle on every image

\* the coordinates drawn at: the quarters from a pixel and a half below the
\* image to a pixel and a half beyond its largest size
DrawCoords == { FromRatio(k, 4) : k \in -6 .. 4 * MaxDim + 6 }

\* image.draw_particle(x, y, color) with a translucent colour, once per image
DrawParticle ==
    /\ ~panicked
    /\ log = << >>
    /\ \E x \in DrawCoords, y \in DrawCoords :
        /\ \E drawn \in { draw_particle(image, x, y, Color(255, 255, 255, 128)) } :
               image' = drawn.image /\ panicked' = drawn.panic
        /\ log' = Append(log, [op |-> << "draw_particle", x, y >>, before |-> image])
    /\ UNCHANGED << worldVars, renders, twin, seed_rng, input, appVars >>

\* particles drawn into images of every size, the empty ones included
SpecDraw == InitImage /\ [][DrawParticle]_vars

\* C28: draw_particle never indexes outside the pixel buffer: whatever the size
\* of the image and the coordinates, it does not panic and every pixel
\* (px, py) it blends into has 0 <= px < width and 0 <= py < height
C28_DrawStaysInside ==
    log # << >> =>
        /\ ~panicked
        /\ \A p \in footprint(LastOp.before, LastOp.op[2], LastOp.op[3]) :
               /\ 0 <= p[1] /\ p[1] < LastOp.before.width
               /\ 0 <= p[2] /\ p[2] < LastOp.before.height

\* C29: in every state of a World that was built, the history is not empty,
\* its last snapshot is the current positions array, and every snapshot has
\* particle_count entries
C29_HistoryShape ==
    result = "ok" =>
        /\ world.history # << >>
        /\ world.history[Len(world.history)] = world.positions
        /\ \A s \in 1 .. Len(world.history) :
               Len(world.history[s]) = world.params.particle_count

\* --------------------------------------- the config in the URL (lib.rs)

MIN_PARTICLE_COUNT == 3

MAX_PARTICLE_COUNT == 1000000

\* the largest particle count entered
MaxEntered == 4

\* the cap on the timeouts set
MaxTimeouts == 3

\* Config { version: 1, sim_params, display_params, frame_limit }
Config(p, limit) == [version |-> 1, params |-> p, frame_limit |-> limit]

\* encode_config_str: the fields of the config in a row (the MessagePack array
\* of the struct, which deflate and base64 carry unchanged)
encode_config_str(config) ==
    << config.version, config.params.seed.n, config.params.particle_count,
       config.params.acc_limit, config.params.particle_color_hue_mid,
       config.params.particle_color_hue_spread,
       config.params.particle_color_saturation_mid,
       config.params.particle_color_saturation_spread,
       config.params.particle_color_value, config.params.particle_color_alpha,
       config.frame_limit >>

\* window.set_timeout_with_callback_and_timeout_and_arguments_0(callback, _),
\* the callback pushing url; the handle returned is win.handles + 1
set_timeout(win, url) ==
    [win EXCEPT !.handles = @ + 1,
                !.timeouts = @ \cup { [handle |-> win.handles + 1, url |-> url] }]

\* window.clear_timeout_with_handle(handle)
clear_timeout_with_handle(win, handle) ==
    [win EXCEPT !.timeouts = { t \in @ : t.handle # handle }]

\* the body of the effect that writes the config to the URL, stored being the
\* signal history_push_state_timeout_handle: [window, handle]
write_config(win, stored, config_str) ==
    IF win.href = << config_str >>
    THEN [window |-> win, handle |-> stored]
    ELSE [window |-> set_timeout(IF stored # << >>
                                 THEN clear_timeout_with_handle(win, stored[1])
                                 ELSE win,
                                 config_str),
          handle |-> << win.handles + 1 >>]

\* the application mounted without a canvas: the World built from the default
\* parameters, no config in the URL, the effect that writes it about to run
InitUrl ==
    /\ params = MakeParams(MIN_PARTICLE_COUNT, 0, -1, DefaultDisplay)
    /\ world = new_world(params)
    /\ result = "ok"
    /\ panicked = FALSE
    /\ ticks = 0
    /\ svg = << >>
    /\ image = NoImage
    /\ renders = 0
    /\ log = << >>
    /\ twin = NoTwin(params)
    /\ seed_rng = 0
    /\ input = << >>
    /\ renderer = << >>
    /\ frame_limit = MaxFrameLimit
    /\ window = NoWindow
    /\ history_push_state_timeout_handle = << >>
    /\ effects = { "url" }

\* on_input_particle_count with a number in the field: the write to
\* sim_params wakes the effects that read it
OnInputParticleCount ==
    /\ \E entered \in 0 .. MaxEntered :
           params' = [params EXCEPT !.particle_count =
                         IF entered < MIN_PARTICLE_COUNT THEN MIN_PARTICLE_COUNT
                         ELSE IF entered > MAX_PARTICLE_COUNT THEN MAX_PARTICLE_COUNT
                         ELSE entered]
    /\ effects' = effects \cup { "world", "url" }
    /\ UNCHANGED << world, result, panicked, ticks, svg, image, renders, log, twin,
                    seed_rng, input, renderer, frame_limit, window,
                    history_push_state_timeout_handle >>

\* the effect that writes the config to the URL
WriteConfigToUrl ==
    /\ "url" \in effects
    /\ window.href # << encode_config_str(Config(params, frame_limit)) >>
           => window.handles < MaxTimeouts
    /\ effects' = effects \ { "url" }
    /\ \E written \in { write_config(window, history_push_state_timeout_handle,
                                     encode_config_str(Config(params, frame_limit))) } :
           /\ window' = written.window
           /\ history_push_state_timeout_handle' = written.handle
    /\ UNCHANGED << params, world, result, panicked, ticks, svg, image, renders, log,
                    twin, seed_rng, input, renderer, frame_limit >>

\* a timeout runs: history.push_state_with_url(_, "", Some(&url))
PushStateTimeout ==
    /\ \E t \in window.timeouts :
           window' = [window EXCEPT !.timeouts = @ \ { t }, !.href = << t.url >>]
    /\ UNCHANGED << params, world, result, panicked, ticks, svg, image, renders, log,
                    twin, seed_rng, input, renderer, frame_limit,
                    history_push_state_timeout_handle, effects >>

NextUrl == OnInputParticleCount \/ RebuildWorld \/ WriteConfigToUrl \/ PushStateTimeout

SpecUrl == InitUrl /\ [][NextUrl]_vars

\* C30: the debounced writer keeps the URL in step with the parameters: at
\* most one push timer is pending at any time, and once no effect waits and
\* no timer is pending the config of the URL that was pushed is the config of
\* the current parameters and frame limit (a timer that a later change of the
\* parameters superseded was cancelled)
C30_UrlFollowsParams ==
    /\ Cardinality(window.timeouts) <= 1
    /\ (effects = {} /\ window.timeouts = {} /\ window.href # << >>)
           => window.href = << encode_config_str(Config(params, frame_limit)) >>

====
